---- MODULE Spec2Model ----
\* The application-lifecycle facade of baetyl-cloud (facade/application.go):
\* CreateApp, UpdateApp and DeleteApp sequence calls to the Configuration,
\* Cron, Application, Node and Index collaborators around one transaction;
\* GetApp reads. Every collaborator call is one step; its outcome (ok, error
\* return, panic) is chosen by the environment.
\* Spec: one call at a time. SpecClean: the generated-config reconciliation
\* on its own, invoked twice. SpecRace: two callers on one application.
EXTENDS Integers, Sequences, FiniteSets, TLC

VARIABLES
    apps,      \* Application store, committed: name -> application or Nil
    crons,     \* Cron store: name -> cron record or Nil (its calls take no tx)
    configs,   \* Configuration store, committed: set of stored names
    index,     \* Node Index store, committed: name -> set of nodes
    nodeApps,  \* Node store, committed: node -> name -> assigned version (0: none)
    tx,        \* what the open transaction sees of the transactional stores
    txState,   \* "none", "open", "committed", "commitfailed", "rolledback"
    pc,        \* position of the facade call in progress
    op,        \* the call in progress: kind, parameters (input: app as
               \* supplied), the local app, loop index, node list
    err,       \* the local variable err read by the deferred function
    fault,     \* a panic is unwinding
    ret,       \* what the last call gave its caller
    calls,     \* the collaborator calls of the current facade call, in order
    pre,       \* the stores as they were when the current call began
    dirty,     \* what common.LogDirtyData recorded in the current call
    nOps,      \* facade calls begun so far
    other      \* a second caller's call (its tx, txState, pc, op, err, fault,
               \* ret, calls, pre, dirty) while this one runs, or Nil

vars == <<apps, crons, configs, index, nodeApps, tx, txState, pc, op, err,
          fault, ret, calls, pre, dirty, nOps, other>>

-----------------------------------------------------------------------------
\* Records

Nil == [nil |-> TRUE]

\* specV1.Application: the fields the facade reads and writes
MkApp(n, sel, cs, ct, vols, ver) ==
    [name |-> n, selector |-> sel, cronStatus |-> cs, cronTime |-> ct,
     volumes |-> vols, version |-> ver]

\* models.Cron, keyed by the application's name
MkCron(sel, ct) == [selector |-> sel, cronTime |-> ct]

\* the parameters and locals of a facade call
MkOp(k, old, a, cfgs) ==
    [configs |-> cfgs, kind |-> k, oldApp |-> old, app |-> a, input |-> a,
     i |-> 1, nodes |-> {}]

\* what a call gives its caller: nil, an error or a panic, and the application
MkRet(st, a) == [app |-> a, status |-> st]

\* a collaborator call, its argument and its result
Call(c, a, r) == [call |-> c, arg |-> a, res |-> r]

\* the call of a caller that is not running: its view of the transactional
\* stores, its transaction, its position, parameters, locals and history
MkCaller(t, ts, p, o, e, f, r, cs, pr, d) ==
    [tx |-> t, txState |-> ts, pc |-> p, op |-> o, err |-> e, fault |-> f,
     ret |-> r, calls |-> cs, pre |-> pr, dirty |-> d]

\* what common.LogDirtyData is given: the name, the namespace and the type of
\* the resource that could not be deleted
MkDirty(n, ns, t) == [name |-> n, namespace |-> ns, type |-> t]

-----------------------------------------------------------------------------
\* Values

CronNotSet == "NotSet"
CronWait == "Wait"
CronScheduled == "Scheduled"
CronStatuses == {CronNotSet, CronWait, CronScheduled}

FunctionConfigPrefix ==
    <<"b","a","e","t","y","l","-","f","u","n","c","t","i","o","n","-",
      "c","o","n","f","i","g">>

FunctionProgramConfigPrefix ==
    <<"b","a","e","t","y","l","-","f","u","n","c","t","i","o","n","-",
      "p","r","o","g","r","a","m","-","c","o","n","f","i","g">>

\* The Configuration names of the model, and the characters of each.
CfgFunctionA == "baetyl-function-config-a"
CfgProgramB == "baetyl-function-program-config-b"
CfgUser == "user-cfg"
CfgBare == "baetyl-function-config"
CfgNear == "baetyl-function-cfg"
CfgNames == {CfgFunctionA, CfgProgramB, CfgUser, CfgBare, CfgNear}

Chars(name) ==
    CASE name = CfgFunctionA -> FunctionConfigPrefix \o <<"-","a">>
      [] name = CfgProgramB -> FunctionProgramConfigPrefix \o <<"-","b">>
      [] name = CfgUser -> <<"u","s","e","r","-","c","f","g">>
      [] name = CfgBare -> FunctionConfigPrefix
      [] name = CfgNear ->
           <<"b","a","e","t","y","l","-","f","u","n","c","t","i","o","n","-",
             "c","f","g">>

\* strings.HasPrefix on character sequences
HasPrefix(s, prefix) ==
    /\ Len(s) >= Len(prefix)
    /\ SubSeq(s, 1, Len(prefix)) = prefix

\* A volume is the name of the Configuration it references, or NoConfig when
\* VolumeSource.Config is nil.
NoConfig == ""

\* the namespace every call of the model is made in
Namespace == "default"
\* common.Config, the resource type given to common.LogDirtyData
ConfigType == "config"

Names == {"app1"}
Nodes == {"N1", "N2", "N3"}
Selectors == {"env=prod", "env=staging"}
NumVersions == 2
MaxOps == 2

\* The cron settings a caller supplies: CronStatus and CronTime.
CronSettings ==
    { [status |-> CronNotSet, time |-> 0],
      [status |-> CronWait, time |-> 1],
      [status |-> CronWait, time |-> 2],
      [status |-> CronScheduled, time |-> 1] }

\* The volumes of a supplied application, with the generated Configurations
\* supplied beside it.
Bodies ==
    { [configs |-> <<>>, volumes |-> <<>>],
      [configs |-> <<CfgFunctionA, CfgUser, CfgProgramB>>,
       volumes |-> <<CfgFunctionA, NoConfig, CfgUser, CfgProgramB>>],
      [configs |-> <<CfgFunctionA>>,
       volumes |-> <<CfgFunctionA, NoConfig, CfgUser, CfgProgramB>>],
      [configs |-> <<CfgBare, CfgNear>>, volumes |-> <<CfgBare, CfgNear>>] }

Outcomes == {"ok", "err", "panic"}

-----------------------------------------------------------------------------
\* Collaborators (their code is outside the facade)

\* The nodes a label selector matches; the empty selector matches none.
NodesMatching(selector) ==
    CASE selector = "env=prod" -> {"N1", "N2"}
      [] selector = "env=staging" -> {"N3"}
      [] OTHER -> {}

\* NodeRepository.UpdateNodeAppVersion: assigns the application's version on
\* every node its selector matches.
NodeUpdateAppVersion(na, app) ==
    [n \in Nodes |->
        IF n \in NodesMatching(app.selector)
        THEN [na[n] EXCEPT ![app.name] = app.version]
        ELSE na[n]]

\* NodeRepository.DeleteNodeAppVersion: removes the application from every
\* node its selector matches.
NodeDeleteAppVersion(na, app) ==
    [n \in Nodes |->
        IF n \in NodesMatching(app.selector)
        THEN [na[n] EXCEPT ![app.name] = 0]
        ELSE na[n]]

\* The resource version the Application store gives the next stored record.
NextVersion(stored) ==
    IF stored = Nil THEN 1 ELSE (stored.version % NumVersions) + 1

Stores == [apps |-> apps, configs |-> configs, index |-> index,
           nodeApps |-> nodeApps]

Snapshot == [apps |-> apps, crons |-> crons, configs |-> configs,
             index |-> index, nodeApps |-> nodeApps]

-----------------------------------------------------------------------------
Init ==
    /\ apps = [n \in Names |-> Nil]
    /\ crons = [n \in Names |-> Nil]
    /\ configs = {}
    /\ index = [n \in Names |-> {}]
    /\ nodeApps = [n \in Nodes |-> [a \in Names |-> 0]]
    /\ tx = [apps |-> [n \in Names |-> Nil], configs |-> {},
             index |-> [n \in Names |-> {}],
             nodeApps |-> [n \in Nodes |-> [a \in Names |-> 0]]]
    /\ txState = "none"
    /\ pc = "idle"
    /\ op = Nil
    /\ err = "nil"
    /\ fault = FALSE
    /\ ret = MkRet("none", Nil)
    /\ calls = <<>>
    /\ pre = Nil
    /\ dirty = {}
    /\ nOps = 0
    /\ other = Nil


-----------------------------------------------------------------------------
\* Pieces of the facade's code

\* variant: the Cron record is looked up whatever the CronStatus
NeedsCronLookupAlways(app) == app # Nil

\* GetApp: app != nil && app.CronStatus == specV1.CronWait
NeedsCronLookup(app) == app # Nil /\ app.cronStatus = CronWait

\* what GetApp returns for a stored application and the Cron record found
\* for it (Nil: none found)
GetAppResult(app, cron) ==
    IF NeedsCronLookup(app) /\ cron # Nil
    THEN [app EXCEPT !.selector = cron.selector]
    ELSE app

\* variant: the Cron record is built after the selector was cleared
CronOfClearedSelector(app) == MkCron("", app.cronTime)

\* &models.Cron{Name, Namespace, Selector, CronTime} built from the application
CronOf(app) == MkCron(app.selector, app.cronTime)

\* app.Selector = ""
ClearSelector(app) == [app EXCEPT !.selector = ""]

\* variant: the Cron delete is tied to the wrong new status
NeedsCronDeleteWrongStatus(oldApp, app) ==
    oldApp.cronStatus = CronWait /\ app.cronStatus = CronScheduled

\* variant: the Cron record is deleted whenever the application stops waiting
NeedsCronDeleteOnLeave(oldApp, app) ==
    oldApp.cronStatus = CronWait /\ app.cronStatus # CronWait

\* oldApp.CronStatus == specV1.CronWait && app.CronStatus == specV1.CronNotSet
NeedsCronDelete(oldApp, app) ==
    oldApp.cronStatus = CronWait /\ app.cronStatus = CronNotSet

\* variant: the comparison of the selectors is inverted
SelectorChangedInverted(oldApp, app) ==
    oldApp # Nil /\ oldApp.selector = app.selector

\* variant: the old node entries are removed on every update
SelectorChangedAlways(oldApp, app) == oldApp # Nil

\* oldApp != nil && oldApp.Selector != app.Selector
SelectorChanged(oldApp, app) ==
    oldApp # Nil /\ oldApp.selector # app.selector

\* variant: the node index is recomputed only when the selector changed
AfterUpdateSkipsRecompute(oldApp, app) ==
    IF SelectorChanged(oldApp, app) THEN "delnode"
    ELSE IF Len(oldApp.volumes) = 0 THEN "defer" ELSE "clean"

\* where UpdateApp goes after a.app.Update returned nil: DeleteNodeAndAppIndex
\* when the selectors differ, and UpdateNodeAndAppIndex in every case
AfterUpdate(oldApp, app) ==
    IF SelectorChanged(oldApp, app) THEN "delnode" ELSE "updnode"

\* m := map[string]bool{}; for _, cfg := range configs { m[cfg.Name] = true }
SurvivingNames(cfgs) == {cfgs[i] : i \in DOMAIN cfgs}

\* variant: only the first reserved prefix is tested
ShouldCleanOnePrefix(m, name) ==
    /\ name \notin m
    /\ HasPrefix(Chars(name), FunctionConfigPrefix)

\* the test that guards a.config.Delete in cleanGenConfigsOfFunctionApp
ShouldClean(m, name) ==
    /\ name \notin m
    /\ \/ HasPrefix(Chars(name), FunctionConfigPrefix)
       \/ HasPrefix(Chars(name), FunctionProgramConfigPrefix)

\* variant: the deferred function ignores err
DeferredChoiceIgnoresErr(panicking, e) ==
    IF panicking THEN "Rollback" ELSE "Commit"

\* variant: the deferred function does not recover a panic
DeferredChoiceNoRecover(panicking, e) ==
    IF e # "nil" THEN "Rollback" ELSE "Commit"

\* what the deferred function does with the transaction
DeferredChoice(panicking, e) ==
    IF panicking THEN "Rollback"
    ELSE IF e # "nil" THEN "Rollback"
    ELSE "Commit"

\* variant: the deferred function recovers the panic and does not raise it
\* again
DeferredResultSwallowsPanic(panicking, e) ==
    IF e # "nil" THEN "err" ELSE "ok"

\* what the caller gets once the deferred function ran: panic(p) again after
\* a recovered panic, else the error or nil the body returned
DeferredResult(panicking, e) ==
    IF panicking THEN "panic"
    ELSE IF e # "nil" THEN "err"
    ELSE "ok"

\* variant: the delete leaves the Configuration where it is
CleanDeleteKeeps(view, name) == view

\* the store the reconciliation's a.config.Delete(tx, ...) acts on: the
\* transaction's view; deleting a name that is not stored changes nothing
CleanDelete(view, name) == [view EXCEPT !.configs = @ \ {name}]

\* variant: an error of a.config.Delete ends the call like any other error
CleanDeleteFailedOnError(outcome) == outcome # "ok"

\* whether an outcome of the reconciliation's a.config.Delete ends the call:
\* an error is logged and followed by continue, only a panic unwinds
CleanDeleteFailed(outcome) == outcome = "panic"

\* an error return or a panic of a collaborator call: control reaches the
\* deferred function with err set, or with the panic unwinding
Fail(outcome) ==
    /\ pc' = "defer"
    /\ err' = IF outcome = "err" THEN "err" ELSE err
    /\ fault' = (outcome = "panic")

\* where cleanGenConfigsOfFunctionApp starts: its loop over oldApp.Volumes
CleanStart(oldApp) == IF Len(oldApp.volumes) = 0 THEN "defer" ELSE "clean"

\* variant: CreateApp goes from the Configuration upserts to the Application
\* create
AfterConfigsSkipsCron(kind) ==
    IF kind = "create" THEN "createapp" ELSE "updatecron"

\* where control goes after updateGenConfigsOfFunctionApp returned nil
AfterConfigs(kind) == IF kind = "create" THEN "createcron" ELSE "updatecron"

FirstStep(kind, cfgs) ==
    IF kind = "delete" THEN "deletecron"
    ELSE IF Len(cfgs) = 0 THEN AfterConfigs(kind) ELSE "upsert"

\* variant: the error of BeginTx is not tested
AfterBeginTxIgnoresError(kind, cfgs, outcome) == FirstStep(kind, cfgs)

\* tx, err := a.txFactory.BeginTx(); if err != nil { return }
AfterBeginTx(kind, cfgs, outcome) ==
    IF outcome = "ok" THEN FirstStep(kind, cfgs) ELSE "done"

-----------------------------------------------------------------------------
\* a.txFactory.BeginTx() and the error return that follows it
BeginTx(kind, oldApp, app, cfgs, outcome) ==
    /\ nOps < MaxOps
    /\ nOps' = nOps + 1
    /\ calls' = <<Call("BeginTx", "", outcome)>>
    /\ pre' = Snapshot
    /\ op' = MkOp(kind, oldApp, app, cfgs)
    /\ err' = "nil"
    /\ fault' = FALSE
    /\ dirty' = {}
    /\ tx' = Stores
    /\ pc' = AfterBeginTx(kind, cfgs, outcome)
    /\ IF outcome = "ok"
       THEN /\ txState' = "open"
            /\ ret' = MkRet("none", Nil)
       ELSE /\ txState' = "none"
            /\ ret' = MkRet("err", Nil)
    /\ UNCHANGED <<apps, crons, configs, index, nodeApps, other>>

\* a call made while the facade is idle
Begin(kind, oldApp, app, cfgs, outcome) ==
    /\ pc = "idle"
    /\ BeginTx(kind, oldApp, app, cfgs, outcome)

InputApp(n, sel, cron, vols) ==
    MkApp(n, sel, cron.status, cron.time, vols, 0)

BeginCreate ==
    \E n \in Names, sel \in Selectors, cron \in CronSettings, body \in Bodies,
       outcome \in {"ok", "err"} :
        Begin("create", Nil, InputApp(n, sel, cron, body.volumes),
              body.configs, outcome)

\* oldApp is the stored application, the application as GetApp returns it,
\* or nil
BeginUpdate ==
    \E n \in Names, sel \in Selectors, cron \in CronSettings, body \in Bodies,
       outcome \in {"ok", "err"} :
        /\ apps[n] # Nil
        /\ \E oldApp \in {apps[n], GetAppResult(apps[n], crons[n]), Nil} :
             Begin("update", oldApp, InputApp(n, sel, cron, body.volumes),
                   body.configs, outcome)

BeginDelete ==
    \E n \in Names, outcome \in {"ok", "err"} :
        /\ apps[n] # Nil
        /\ Begin("delete", apps[n], apps[n], <<>>, outcome)

\* GetApp: a.app.Get(namespace, name, version), then for a waiting application
\* a.cron.GetCron(name, namespace), whose selector replaces the application's
\* when the lookup returned no error. It has no transaction and no deferred
\* function: a panic of a collaborator reaches the caller as it is.
GetApp ==
    /\ pc = "idle"
    /\ \E n \in Names, got \in Outcomes, gotCron \in Outcomes :
        LET app == IF got = "ok" THEN apps[n] ELSE Nil
            lookup == got = "ok" /\ NeedsCronLookup(app)
        IN
        /\ got = "ok" => apps[n] # Nil
        /\ gotCron = "ok" => (lookup /\ crons[n] # Nil)
        /\ ~lookup => gotCron = "err"
        /\ calls' = IF lookup
                     THEN <<Call("AppGet", n, got), Call("GetCron", n, gotCron)>>
                     ELSE <<Call("AppGet", n, got)>>
        /\ ret' = IF got = "panic" \/ (lookup /\ gotCron = "panic")
                     THEN MkRet("panic", Nil)
                  ELSE IF got = "err" THEN MkRet("err", Nil)
                  ELSE MkRet("ok", GetAppResult(app, IF gotCron = "ok"
                                                     THEN crons[n] ELSE Nil))
        /\ op' = MkOp("get", Nil, app, <<>>)
    /\ pc' = "done"
    /\ pre' = Snapshot
    /\ err' = "nil"
    /\ fault' = FALSE
    /\ dirty' = {}
    /\ txState' = "none"
    /\ UNCHANGED <<apps, crons, configs, index, nodeApps, tx, nOps, other>>

\* one iteration of updateGenConfigsOfFunctionApp: a.config.Upsert(tx, ns, &cfg)
UpsertConfig ==
    /\ pc = "upsert"
    /\ \E outcome \in Outcomes :
        LET cfg == op.configs[op.i] IN
        /\ calls' = Append(calls, Call("Upsert", cfg, outcome))
        /\ IF outcome = "ok"
           THEN /\ tx' = [tx EXCEPT !.configs = @ \cup {cfg}]
                /\ IF op.i < Len(op.configs)
                   THEN /\ op' = [op EXCEPT !.i = @ + 1]
                        /\ pc' = "upsert"
                   ELSE /\ op' = [op EXCEPT !.i = 1]
                        /\ pc' = AfterConfigs(op.kind)
                /\ UNCHANGED <<err, fault>>
           ELSE /\ Fail(outcome)
                /\ UNCHANGED <<tx, op>>
    /\ UNCHANGED <<apps, crons, configs, index, nodeApps, txState, ret, pre,
                   dirty, nOps, other>>

\* CreateApp: if app.CronStatus == CronWait { CreateCron; app.Selector = "" }
CreateCron ==
    /\ pc = "createcron"
    /\ IF op.app.cronStatus = CronWait
       THEN \E outcome \in Outcomes :
            /\ outcome = "ok" => crons[op.app.name] = Nil
            /\ calls' = Append(calls, Call("CreateCron", op.app.name, outcome))
            /\ IF outcome = "ok"
               THEN /\ crons' = [crons EXCEPT ![op.app.name] = CronOf(op.app)]
                    /\ op' = [op EXCEPT !.app = ClearSelector(op.app)]
                    /\ pc' = "createapp"
                    /\ UNCHANGED <<err, fault>>
               ELSE /\ Fail(outcome)
                    /\ UNCHANGED <<crons, op>>
       ELSE /\ pc' = "createapp"
            /\ UNCHANGED <<crons, op, calls, err, fault>>
    /\ UNCHANGED <<apps, configs, index, nodeApps, tx, txState, ret, pre, dirty,
                   nOps, other>>

\* UpdateApp: if app.CronStatus == CronWait { UpdateCron; app.Selector = "" }
UpdateCron ==
    /\ pc = "updatecron"
    /\ IF op.app.cronStatus = CronWait
       THEN \E outcome \in Outcomes :
            /\ calls' = Append(calls, Call("UpdateCron", op.app.name, outcome))
            /\ IF outcome = "ok"
               THEN /\ crons' = [crons EXCEPT ![op.app.name] = CronOf(op.app)]
                    /\ op' = [op EXCEPT !.app = ClearSelector(op.app)]
                    /\ pc' = "updatecrondel"
                    /\ UNCHANGED <<err, fault>>
               ELSE /\ Fail(outcome)
                    /\ UNCHANGED <<crons, op>>
       ELSE /\ pc' = "updatecrondel"
            /\ UNCHANGED <<crons, op, calls, err, fault>>
    /\ UNCHANGED <<apps, configs, index, nodeApps, tx, txState, ret, pre, dirty,
                   nOps, other>>

\* UpdateApp: if oldApp.CronStatus == CronWait && app.CronStatus == CronNotSet
\* { DeleteCron }; reading oldApp.CronStatus of a nil oldApp panics
UpdateDeleteCron ==
    /\ pc = "updatecrondel"
    /\ IF op.oldApp = Nil
       THEN /\ Fail("panic")
            /\ UNCHANGED <<crons, calls>>
       ELSE IF NeedsCronDelete(op.oldApp, op.app)
       THEN \E outcome \in Outcomes :
            /\ calls' = Append(calls, Call("DeleteCron", op.app.name, outcome))
            /\ IF outcome = "ok"
               THEN /\ crons' = [crons EXCEPT ![op.app.name] = Nil]
                    /\ pc' = "updateapp"
                    /\ UNCHANGED <<err, fault>>
               ELSE /\ Fail(outcome)
                    /\ UNCHANGED crons
       ELSE /\ pc' = "updateapp"
            /\ UNCHANGED <<crons, calls, err, fault>>
    /\ UNCHANGED <<apps, configs, index, nodeApps, tx, txState, op, ret, pre,
                   dirty, nOps, other>>

\* DeleteApp: if app.CronStatus == CronWait { DeleteCron(name, ns) }
DeleteCron ==
    /\ pc = "deletecron"
    /\ IF op.app.cronStatus = CronWait
       THEN \E outcome \in Outcomes :
            /\ calls' = Append(calls, Call("DeleteCron", op.app.name, outcome))
            /\ IF outcome = "ok"
               THEN /\ crons' = [crons EXCEPT ![op.app.name] = Nil]
                    /\ pc' = "deleteapp"
                    /\ UNCHANGED <<err, fault>>
               ELSE /\ Fail(outcome)
                    /\ UNCHANGED crons
       ELSE /\ pc' = "deleteapp"
            /\ UNCHANGED <<crons, calls, err, fault>>
    /\ UNCHANGED <<apps, configs, index, nodeApps, tx, txState, op, ret, pre,
                   dirty, nOps, other>>

\* the node list DeleteNodeAndAppIndex refreshes the index to: make([]string, 0)
EmptyNodes == {}

\* variant: the index is refreshed to an empty node list
RefreshTargetEmpty(nodes) == {}

\* the node list UpdateNodeAndAppIndex refreshes the index to: the one
\* UpdateNodeAppVersion returned
RefreshTarget(nodes) == nodes

\* CreateApp: app, err = a.app.CreateWithBase(tx, ns, app, baseApp)
AppCreateWithBase ==
    /\ pc = "createapp"
    /\ \E outcome \in Outcomes :
        LET stored == [op.app EXCEPT
                         !.version = NextVersion(tx.apps[op.app.name])] IN
        /\ outcome = "ok" => tx.apps[op.app.name] = Nil
        /\ calls' = Append(calls, Call("AppCreate", op.app.name, outcome))
        /\ IF outcome = "ok"
           THEN /\ tx' = [tx EXCEPT !.apps[op.app.name] = stored]
                /\ op' = [op EXCEPT !.app = stored]
                /\ pc' = "updnode"
                /\ UNCHANGED <<err, fault>>
           ELSE /\ Fail(outcome)
                /\ UNCHANGED <<tx, op>>
    /\ UNCHANGED <<apps, crons, configs, index, nodeApps, txState, ret, pre,
                   dirty, nOps, other>>

\* UpdateApp: app, err = a.app.Update(tx, ns, app), then the test of
\* oldApp != nil && oldApp.Selector != app.Selector
AppUpdate ==
    /\ pc = "updateapp"
    /\ \E outcome \in Outcomes :
        LET stored == [op.app EXCEPT
                         !.version = NextVersion(tx.apps[op.app.name])] IN
        /\ outcome = "ok" => tx.apps[op.app.name] # Nil
        /\ calls' = Append(calls, Call("AppUpdate", op.app.name, outcome))
        /\ IF outcome = "ok"
           THEN /\ tx' = [tx EXCEPT !.apps[op.app.name] = stored]
                /\ op' = [op EXCEPT !.app = stored]
                /\ pc' = AfterUpdate(op.oldApp, stored)
                /\ UNCHANGED <<err, fault>>
           ELSE /\ Fail(outcome)
                /\ UNCHANGED <<tx, op>>
    /\ UNCHANGED <<apps, crons, configs, index, nodeApps, txState, ret, pre,
                   dirty, nOps, other>>

\* DeleteApp: a.app.Delete(tx, ns, name, "")
AppDelete ==
    /\ pc = "deleteapp"
    /\ \E outcome \in Outcomes :
        /\ outcome = "ok" => tx.apps[op.app.name] # Nil
        /\ calls' = Append(calls, Call("AppDelete", op.app.name, outcome))
        /\ IF outcome = "ok"
           THEN /\ tx' = [tx EXCEPT !.apps[op.app.name] = Nil]
                /\ pc' = "delnode"
                /\ UNCHANGED <<err, fault>>
           ELSE /\ Fail(outcome)
                /\ UNCHANGED tx
    /\ UNCHANGED <<apps, crons, configs, index, nodeApps, txState, op, ret,
                   pre, dirty, nOps, other>>

\* DeleteNodeAndAppIndex: a.node.DeleteNodeAppVersion(tx, namespace, app)
DeleteNodeAppVersion ==
    /\ pc = "delnode"
    /\ \E outcome \in Outcomes :
        /\ calls' = Append(calls,
                           Call("DeleteNodeAppVersion", op.oldApp.name, outcome))
        /\ IF outcome = "ok"
           THEN /\ tx' = [tx EXCEPT
                            !.nodeApps = NodeDeleteAppVersion(@, op.oldApp)]
                /\ pc' = "delindex"
                /\ UNCHANGED <<err, fault>>
           ELSE /\ Fail(outcome)
                /\ UNCHANGED tx
    /\ UNCHANGED <<apps, crons, configs, index, nodeApps, txState, op, ret,
                   pre, dirty, nOps, other>>

\* DeleteNodeAndAppIndex: a.index.RefreshNodesIndexByApp(tx, namespace,
\* app.Name, make([]string, 0)), and where its caller continues
RefreshEmpty ==
    /\ pc = "delindex"
    /\ \E outcome \in Outcomes :
        /\ calls' = Append(calls, Call("RefreshNodesIndexByApp",
                                       op.oldApp.name, outcome))
        /\ IF outcome = "ok"
           THEN /\ tx' = [tx EXCEPT !.index[op.oldApp.name] = EmptyNodes]
                /\ pc' = IF op.kind = "update" THEN "updnode"
                         ELSE CleanStart(op.oldApp)
                /\ UNCHANGED <<err, fault>>
           ELSE /\ Fail(outcome)
                /\ UNCHANGED tx
    /\ UNCHANGED <<apps, crons, configs, index, nodeApps, txState, op, ret,
                   pre, dirty, nOps, other>>

\* UpdateNodeAndAppIndex: nodes, err := a.node.UpdateNodeAppVersion(tx,
\* namespace, app)
UpdateNodeAppVersion ==
    /\ pc = "updnode"
    /\ \E outcome \in Outcomes :
        /\ calls' = Append(calls,
                           Call("UpdateNodeAppVersion", op.app.name, outcome))
        /\ IF outcome = "ok"
           THEN /\ tx' = [tx EXCEPT
                            !.nodeApps = NodeUpdateAppVersion(@, op.app)]
                /\ op' = [op EXCEPT !.nodes = NodesMatching(op.app.selector)]
                /\ pc' = "updindex"
                /\ UNCHANGED <<err, fault>>
           ELSE /\ Fail(outcome)
                /\ UNCHANGED <<tx, op>>
    /\ UNCHANGED <<apps, crons, configs, index, nodeApps, txState, ret, pre,
                   dirty, nOps, other>>

\* UpdateNodeAndAppIndex: a.index.RefreshNodesIndexByApp(tx, namespace,
\* app.Name, nodes), and where its caller continues
RefreshIndex ==
    /\ pc = "updindex"
    /\ \E outcome \in Outcomes :
        /\ calls' = Append(calls, Call("RefreshNodesIndexByApp",
                                       op.app.name, outcome))
        /\ IF outcome = "ok"
           THEN /\ tx' = [tx EXCEPT
                            !.index[op.app.name] = RefreshTarget(op.nodes)]
                /\ pc' = IF op.kind = "create" THEN "defer"
                         ELSE CleanStart(op.oldApp)
                /\ UNCHANGED <<err, fault>>
           ELSE /\ Fail(outcome)
                /\ UNCHANGED tx
    /\ UNCHANGED <<apps, crons, configs, index, nodeApps, txState, op, ret,
                   pre, dirty, nOps, other>>

\* one iteration of the loop of cleanGenConfigsOfFunctionApp over
\* oldApp.Volumes; an error of a.config.Delete is logged and the loop goes on
CleanConfig ==
    /\ pc = "clean"
    /\ LET v == op.oldApp.volumes[op.i]
           Continue == IF op.i < Len(op.oldApp.volumes)
                       THEN /\ op' = [op EXCEPT !.i = @ + 1]
                            /\ pc' = "clean"
                       ELSE /\ op' = [op EXCEPT !.i = 1]
                            /\ pc' = "defer"
       IN
       IF v = NoConfig
       THEN /\ Continue
            /\ UNCHANGED <<tx, calls, dirty, err, fault>>
       ELSE IF ShouldClean(SurvivingNames(op.configs), v)
       THEN \E outcome \in Outcomes :
            /\ calls' = Append(calls, Call("ConfigDelete", v, outcome))
            /\ CASE outcome = "ok" ->
                      /\ tx' = CleanDelete(tx, v)
                      /\ Continue
                      /\ UNCHANGED <<dirty, err, fault>>
                 [] outcome # "ok" /\ CleanDeleteFailed(outcome) ->
                      /\ Fail(outcome)
                      /\ UNCHANGED <<tx, op, dirty>>
                 [] OTHER ->
                      /\ dirty' = dirty \cup {MkDirty(v, Namespace, ConfigType)}
                      /\ Continue
                      /\ UNCHANGED <<tx, err, fault>>
       ELSE /\ Continue
            /\ UNCHANGED <<tx, calls, dirty, err, fault>>
    /\ UNCHANGED <<apps, crons, configs, index, nodeApps, txState, ret, pre,
                   nOps, other>>

\* the deferred function, and the return to the caller (or the re-raised
\* panic). Commit returns nothing to the facade; whether the store committed
\* is the transaction manager's.
Deferred ==
    /\ pc = "defer"
    /\ pc' = "done"
    /\ ret' = MkRet(DeferredResult(fault, err),
                     IF fault \/ err # "nil" \/ op.kind = "delete"
                     THEN Nil ELSE op.app)
    /\ IF DeferredChoice(fault, err) = "Rollback"
       THEN /\ calls' = Append(calls, Call("Rollback", "", "ok"))
            /\ txState' = "rolledback"
            /\ tx' = Stores
            /\ UNCHANGED <<apps, configs, index, nodeApps>>
       ELSE \E outcome \in {"ok", "err"} :
            /\ calls' = Append(calls, Call("Commit", "", outcome))
            /\ IF outcome = "ok"
               THEN /\ txState' = "committed"
                    /\ apps' = tx.apps
                    /\ configs' = tx.configs
                    /\ index' = tx.index
                    /\ nodeApps' = tx.nodeApps
                    /\ tx' = tx
               ELSE /\ txState' = "commitfailed"
                    /\ tx' = Stores
                    /\ UNCHANGED <<apps, configs, index, nodeApps>>
    /\ UNCHANGED <<crons, op, err, fault, pre, dirty, nOps, other>>

\* the caller has its result; the facade is ready for the next call
Return ==
    /\ pc = "done"
    /\ pc' = "idle"
    /\ op' = Nil
    /\ err' = "nil"
    /\ fault' = FALSE
    /\ ret' = MkRet("none", Nil)
    /\ calls' = <<>>
    /\ pre' = Nil
    /\ dirty' = {}
    /\ txState' = "none"
    /\ UNCHANGED <<apps, crons, configs, index, nodeApps, tx, nOps, other>>

Next ==
    \/ GetApp
    \/ BeginCreate
    \/ BeginUpdate
    \/ BeginDelete
    \/ UpsertConfig
    \/ CreateCron
    \/ UpdateCron
    \/ UpdateDeleteCron
    \/ DeleteCron
    \/ AppCreateWithBase
    \/ AppUpdate
    \/ AppDelete
    \/ DeleteNodeAppVersion
    \/ RefreshEmpty
    \/ UpdateNodeAppVersion
    \/ RefreshIndex
    \/ CleanConfig
    \/ Deferred
    \/ Return

Spec == Init /\ [][Next]_vars

-----------------------------------------------------------------------------
\* The reconciliation on its own: cleanGenConfigsOfFunctionApp(tx, configs,
\* oldApp) invoked on any Configuration store, for any old application and
\* surviving set of the model, and invoked again with the same arguments.

InitClean ==
    /\ apps = [n \in Names |-> Nil]
    /\ crons = [n \in Names |-> Nil]
    /\ configs \in SUBSET CfgNames
    /\ index = [n \in Names |-> {}]
    /\ nodeApps = [n \in Nodes |-> [a \in Names |-> 0]]
    /\ tx = Stores
    /\ txState = "open"
    /\ \E n \in Names, old \in Bodies, new \in Bodies :
        LET oldApp == MkApp(n, "", CronNotSet, 0, old.volumes, 1) IN
        /\ op = MkOp("clean", oldApp, oldApp, new.configs)
        /\ pc = CleanStart(oldApp)
    /\ err = "nil"
    /\ fault = FALSE
    /\ ret = MkRet("none", Nil)
    /\ calls = <<>>
    /\ pre = Snapshot
    /\ dirty = {}
    /\ nOps = 1
    /\ other = Nil

\* what a.config.Delete gives the reconciliation here: the first invocation
\* deletes its candidates; a later one, whose candidates are gone, is given
\* nil or an error by the store
DeleteContract ==
    \A i \in DOMAIN calls :
        /\ calls[i].res # "panic"
        /\ nOps = 1 => calls[i].res = "ok"

CleanStep == CleanConfig /\ DeleteContract'

\* cleanGenConfigsOfFunctionApp returned and is invoked again with the same
\* tx, configs and oldApp
CleanAgain ==
    /\ op.kind = "clean"
    /\ pc = "defer"
    /\ nOps < MaxOps
    /\ nOps' = nOps + 1
    /\ pc' = CleanStart(op.oldApp)
    /\ pre' = [Snapshot EXCEPT !.configs = tx.configs]
    /\ calls' = <<>>
    /\ dirty' = {}
    /\ UNCHANGED <<apps, crons, configs, index, nodeApps, tx, txState, op, err,
                   fault, ret, other>>

NextClean == CleanStep \/ CleanAgain

SpecClean == InitClean /\ [][NextClean]_vars

-----------------------------------------------------------------------------
\* Two callers on one application. Each reads the stored application to form
\* its arguments, then calls UpdateApp or DeleteApp. The transaction manager
\* serializes the transactions: BeginTx waits while the other caller's
\* transaction is open, so a caller is switched out only before its BeginTx
\* or after its call returned. Every collaborator call succeeds or fails as
\* in Spec.

\* a caller that has not called yet
IdleCaller ==
    MkCaller(Stores, "none", "idle", Nil, "nil", FALSE, MkRet("none", Nil),
             <<>>, Nil, {})

\* the stores a successful CreateApp of an application with selector
\* env=prod leaves, waiting or not
InitRace ==
    /\ \E n \in Names, cron \in {c \in CronSettings : c.time <= 1
                                       /\ c.status # CronScheduled} :
        LET a == InputApp(n, "env=prod", cron, <<>>)
            stored == [(IF cron.status = CronWait THEN ClearSelector(a) ELSE a)
                          EXCEPT !.version = NextVersion(Nil)]
        IN
        /\ apps = [m \in Names |-> IF m = n THEN stored ELSE Nil]
        /\ crons = [m \in Names |-> IF m = n /\ cron.status = CronWait
                                      THEN CronOf(a) ELSE Nil]
        /\ index = [m \in Names |-> IF m = n
                                      THEN RefreshTarget(NodesMatching(stored.selector))
                                      ELSE {}]
        /\ nodeApps = NodeUpdateAppVersion(
                          [node \in Nodes |-> [m \in Names |-> 0]], stored)
    /\ configs = {}
    /\ tx = Stores
    /\ txState = "none"
    /\ pc = "idle"
    /\ op = Nil
    /\ err = "nil"
    /\ fault = FALSE
    /\ ret = MkRet("none", Nil)
    /\ calls = <<>>
    /\ pre = Nil
    /\ dirty = {}
    /\ nOps = 0
    /\ other = IdleCaller

\* the caller reads the stored application and forms the arguments of
\* UpdateApp(ns, oldApp, app, configs)
PrepareUpdate ==
    /\ pc = "idle"
    /\ \E n \in Names, sel \in Selectors, cron \in CronSettings :
        /\ apps[n] # Nil
        /\ op' = MkOp("update", apps[n], InputApp(n, sel, cron, <<>>), <<>>)
    /\ pc' = "ready"
    /\ UNCHANGED <<apps, crons, configs, index, nodeApps, tx, txState, err,
                   fault, ret, calls, pre, dirty, nOps, other>>

\* the caller reads the stored application and forms the arguments of
\* DeleteApp(ns, name, app)
PrepareDelete ==
    /\ pc = "idle"
    /\ \E n \in Names :
        /\ apps[n] # Nil
        /\ op' = MkOp("delete", apps[n], apps[n], <<>>)
    /\ pc' = "ready"
    /\ UNCHANGED <<apps, crons, configs, index, nodeApps, tx, txState, err,
                   fault, ret, calls, pre, dirty, nOps, other>>

\* the call is made with the arguments formed earlier; its BeginTx is let in
\* when no other transaction is open
BeginPrepared ==
    /\ pc = "ready"
    /\ other.txState # "open"
    /\ \E outcome \in {"ok", "err"} :
        BeginTx(op.kind, op.oldApp, op.input, op.configs, outcome)

\* the other caller runs
Switch ==
    /\ other # Nil
    /\ txState # "open"
    /\ other' = MkCaller(tx, txState, pc, op, err, fault, ret, calls, pre, dirty)
    /\ tx' = other.tx
    /\ txState' = other.txState
    /\ pc' = other.pc
    /\ op' = other.op
    /\ err' = other.err
    /\ fault' = other.fault
    /\ ret' = other.ret
    /\ calls' = other.calls
    /\ pre' = other.pre
    /\ dirty' = other.dirty
    /\ UNCHANGED <<apps, crons, configs, index, nodeApps, nOps>>

NextRace ==
    \/ PrepareUpdate
    \/ PrepareDelete
    \/ BeginPrepared
    \/ Switch
    \/ UpdateCron
    \/ UpdateDeleteCron
    \/ DeleteCron
    \/ AppUpdate
    \/ AppDelete
    \/ DeleteNodeAppVersion
    \/ RefreshEmpty
    \/ UpdateNodeAppVersion
    \/ RefreshIndex
    \/ Deferred

SpecRace == InitRace /\ [][NextRace]_vars

TypeOK ==
    /\ pc \in {"idle", "ready", "done", "upsert", "createcron", "updatecron",
               "updatecrondel", "deletecron", "createapp", "updateapp",
               "deleteapp", "delnode", "delindex", "updnode", "updindex",
               "clean", "defer"}
    /\ txState \in {"none", "open", "committed", "commitfailed", "rolledback"}
    /\ configs \subseteq CfgNames
    /\ \A n \in Names : index[n] \subseteq Nodes

-----------------------------------------------------------------------------
\* Vocabulary of the properties

Done == pc = "done"
\* the call in progress is a CreateApp, UpdateApp or DeleteApp
Transactional == op # Nil /\ op.kind \in {"create", "update", "delete"}
\* BeginTx succeeded
Began == Transactional /\ calls[1].res = "ok"
\* the call returned nil and its transaction committed
Succeeded == Done /\ ret.status = "ok" /\ txState = "committed"
CallsOf(c) == {i \in DOMAIN calls : calls[i].call = c}
TxEnds == CallsOf("Commit") \cup CallsOf("Rollback")
\* a step of the transactional sequence returned an error or panicked
\* (an error of the reconciliation's Configuration delete is not one: it is
\* logged and the sequence goes on)
StepFailed ==
    \/ fault
    \/ \E i \in DOMAIN calls :
          /\ calls[i].res = "err"
          /\ calls[i].call \notin {"ConfigDelete", "Commit"}

\* C1: after CreateApp, UpdateApp or DeleteApp returned the error of a failed
\* step, the Application, Cron, Configuration, Node and Index stores are as
\* they were before the call.
C1_Atomicity ==
    (Done /\ Began /\ ret.status = "err") => Snapshot = pre

\* C2: the caller sees success only when the transaction committed; a failed
\* BeginTx or a failed Commit gives the caller an error.
C2_SuccessOnlyIfCommitted ==
    (Done /\ Transactional) =>
        /\ ret.status = "ok" => txState = "committed"
        /\ ~Began => ret.status = "err"
        /\ txState = "commitfailed" => ret.status = "err"

\* C3: a call whose BeginTx succeeded ends its transaction exactly once: one
\* Commit and no Rollback when every step succeeded, one Rollback and no
\* Commit when a step failed; nothing follows the end of the transaction and
\* no call returns with the transaction open.
C3_TxEndsOnce ==
    /\ Cardinality(TxEnds) <= 1
    /\ TxEnds # {} => (Done /\ TxEnds = {Len(calls)})
    /\ txState = "open" <=> (Began /\ TxEnds = {})
    /\ (Done /\ Began) =>
          /\ Cardinality(TxEnds) = 1
          /\ txState # "open"
          /\ StepFailed => calls[Len(calls)].call = "Rollback"
          /\ ~StepFailed => calls[Len(calls)].call = "Commit"

C3_Witness ==
    /\ Done
    /\ op.kind = "update"
    /\ CallsOf("AppUpdate") # {}
    /\ StepFailed
    /\ calls[Len(calls)].call = "Rollback"

\* the Cron invariant on given Application and Cron stores
CronInv(as, cs) ==
    \A n \in Names : cs[n] # Nil <=> (as[n] # Nil /\ as[n].cronStatus = CronWait)

\* C4: a Cron record exists iff the stored Application has CronStatus Wait:
\* every successful CreateApp, UpdateApp (given the stored application as
\* oldApp) and DeleteApp that starts from stores where this holds ends in
\* stores where it holds.
C4_CronInvariant ==
    (Succeeded /\ CronInv(pre.apps, pre.crons)) => CronInv(apps, crons)

\* C5: a successful CreateApp or UpdateApp of an application supplied with
\* CronStatus Wait and selector S persists and returns the application with
\* an empty selector, and leaves a Cron record holding S and the
\* application's CronTime, also when UpdateApp found no Cron record.
C5_WaitMovesSelectorToCron ==
    (Succeeded /\ op.kind \in {"create", "update"}
               /\ op.input.cronStatus = CronWait) =>
        /\ ret.app.selector = ""
        /\ apps[op.input.name] = ret.app
        /\ apps[op.input.name].selector = ""
        /\ apps[op.input.name].cronStatus = CronWait
        /\ crons[op.input.name] # Nil
        /\ crons[op.input.name].selector = op.input.selector
        /\ crons[op.input.name].cronTime = op.input.cronTime
        /\ crons[op.input.name].cronTime = apps[op.input.name].cronTime

C5_Witness ==
    /\ Succeeded
    /\ op.kind = "update"
    /\ op.input.cronStatus = CronWait
    /\ op.input.selector = "env=staging"
    /\ pre.crons[op.input.name] = Nil
    /\ crons[op.input.name] = MkCron("env=staging", 2)

\* C6: after a successful UpdateApp from CronStatus Wait to NotSet, and after
\* a successful DeleteApp of an application with CronStatus Wait, no Cron
\* record of the application exists.
C6_CronTeardown ==
    /\ (Succeeded /\ op.kind = "update" /\ op.oldApp.cronStatus = CronWait
                  /\ op.input.cronStatus = CronNotSet) =>
            crons[op.input.name] = Nil
    /\ (Succeeded /\ op.kind = "delete" /\ op.input.cronStatus = CronWait) =>
            crons[op.input.name] = Nil

C6_Witness ==
    /\ Succeeded
    /\ op.kind = "update"
    /\ op.oldApp.cronStatus = CronWait
    /\ op.input.cronStatus = CronNotSet
    /\ pre.crons[op.input.name] # Nil
    /\ crons[op.input.name] = Nil

\* C7: between facade calls the Node Index entry of every stored application
\* is exactly the node set the node collaborator gives for the application as
\* persisted, and the entry of an application that is not stored is empty; in
\* particular after a successful CreateApp or UpdateApp, and after a
\* successful DeleteApp.
C7_IndexConsistency ==
    pc \in {"idle", "done"} =>
        \A n \in Names :
            index[n] = IF apps[n] = Nil THEN {}
                       ELSE NodesMatching(apps[n].selector)

C7_Witness ==
    /\ Succeeded
    /\ op.kind = "update"
    /\ pre.index[op.input.name] = {"N3"}
    /\ index[op.input.name] = {"N1", "N2"}
    /\ apps[op.input.name].selector = "env=prod"

\* C8: a successful UpdateApp that moves the application from a selector
\* matching node set A to one matching a disjoint set B leaves the index
\* entry exactly B and no node of A assigned a version of the application.
C8_SelectorChangeReindex ==
    (Succeeded /\ op.kind = "update") =>
        LET n == op.input.name
            A == NodesMatching(op.oldApp.selector)
            B == NodesMatching(apps[n].selector)
        IN (A # {} /\ A \cap B = {}) =>
               /\ index[n] = B
               /\ index[n] \cap A = {}
               /\ \A node \in A : nodeApps[node][n] = 0
               /\ \A node \in B : nodeApps[node][n] = apps[n].version

C8_Witness ==
    /\ Succeeded
    /\ op.kind = "update"
    /\ op.oldApp.selector = "env=prod"
    /\ pre.index[op.input.name] = {"N1", "N2"}
    /\ pre.nodeApps["N1"][op.input.name] # 0
    /\ apps[op.input.name].selector = "env=staging"
    /\ index[op.input.name] = {"N3"}

\* The names of the model that carry a reserved prefix, listed by hand.
ReservedNames == {CfgFunctionA, CfgProgramB, CfgBare}

\* the Configurations the old application's volumes reference
Referenced(app) ==
    {app.volumes[i] : i \in DOMAIN app.volumes} \ {NoConfig}

\* the set C9 says the reconciliation deletes
GcCandidates ==
    {c \in Referenced(op.oldApp) :
        c \notin SurvivingNames(op.configs) /\ c \in ReservedNames}

\* C9: in a successful UpdateApp or DeleteApp the reconciliation issues a
\* Configuration delete for exactly the Configurations that the old
\* application's volumes reference, that are not in the surviving set and
\* whose name has a reserved prefix; when no delete fails the store then
\* holds what it held, plus the supplied Configurations, minus those.
C9_GeneratedConfigGC ==
    (Done /\ ret.status = "ok" /\ op.kind \in {"update", "delete"}) =>
        /\ {calls[i].arg : i \in CallsOf("ConfigDelete")} = GcCandidates
        /\ (txState = "committed" /\ dirty = {}) =>
              configs = (pre.configs \cup SurvivingNames(op.configs))
                           \ GcCandidates

C9_Witness ==
    /\ Succeeded
    /\ op.kind = "update"
    /\ dirty = {}
    /\ pre.configs = {CfgFunctionA, CfgUser, CfgProgramB}
    /\ Referenced(op.oldApp) = {CfgFunctionA, CfgUser, CfgProgramB}
    /\ SurvivingNames(op.configs) = {CfgFunctionA}
    /\ configs = {CfgFunctionA, CfgUser}

FailedDeletes == {i \in CallsOf("ConfigDelete") : calls[i].res = "err"}

\* C11: an error of a Configuration delete of the reconciliation does not
\* fail the UpdateApp or DeleteApp around it: the failure is recorded as a
\* dirty-data diagnostic with the type, the namespace and the name, every
\* other deletion candidate is still attempted, the call returns nil, and the
\* transaction is ended by Commit and never by Rollback.
C11_DeleteFailureTolerated ==
    /\ dirty = {MkDirty(calls[i].arg, Namespace, ConfigType) : i \in FailedDeletes}
    /\ (Done /\ FailedDeletes # {} /\ ~fault) =>
          /\ op.kind \in {"update", "delete"}
          /\ ret.status = "ok"
          /\ calls[Len(calls)].call = "Commit"
          /\ CallsOf("Rollback") = {}
          /\ {calls[i].arg : i \in CallsOf("ConfigDelete")} = GcCandidates
          /\ calls[Len(calls)].res = "ok" =>
                /\ txState = "committed"
                /\ configs = (pre.configs \cup SurvivingNames(op.configs))
                     \ {calls[i].arg : i \in CallsOf("ConfigDelete") \ FailedDeletes}

C11_Witness ==
    /\ Succeeded
    /\ op.kind = "update"
    /\ \E i \in FailedDeletes : \E j \in CallsOf("ConfigDelete") :
          /\ i < j
          /\ calls[j].res = "ok"
          /\ calls[i].arg \in configs
          /\ calls[j].arg \in pre.configs \ configs

\* C12: GetApp returns the stored application with its selector replaced by
\* the Cron record's exactly when the application exists, has CronStatus Wait
\* and the Cron lookup succeeded; when the Cron lookup fails, or the status
\* is not Wait, it returns the stored application as it is and no error; when
\* the Application lookup fails it returns the error and no application.
\* GetApp begins no transaction and changes no store.
C12_GetApp ==
    (op # Nil /\ op.kind = "get") =>
        LET n == calls[1].arg
            cronFound == \E i \in CallsOf("GetCron") : calls[i].res = "ok"
            panicked == \E i \in DOMAIN calls : calls[i].res = "panic"
        IN
        /\ Done
        /\ Snapshot = pre
        /\ txState = "none"
        /\ \A i \in DOMAIN calls : calls[i].call \in {"AppGet", "GetCron"}
        /\ calls[1].call = "AppGet"
        /\ (calls[1].res = "err") => ret = MkRet("err", Nil)
        /\ (calls[1].res = "ok" /\ ~panicked) =>
              /\ ret.status = "ok"
              /\ ret.app # Nil
              /\ ret.app.selector =
                    IF apps[n].cronStatus = CronWait /\ cronFound
                    THEN crons[n].selector ELSE apps[n].selector
              /\ [ret.app EXCEPT !.selector = apps[n].selector] = apps[n]

C12_Witness ==
    /\ Done
    /\ op.kind = "get"
    /\ calls[1].res = "ok"
    /\ \E i \in CallsOf("GetCron") : calls[i].res = "ok"
    /\ apps[calls[1].arg].cronStatus = CronWait
    /\ apps[calls[1].arg].selector = ""
    /\ crons[calls[1].arg].selector = "env=prod"
    /\ ret = MkRet("ok", [apps[calls[1].arg] EXCEPT !.selector = "env=prod"])

\* a collaborator call of the current call panicked
Panicked == \E i \in DOMAIN calls : calls[i].res = "panic"

\* the finished call was an UpdateApp given a nil oldApp whose calls up to the
\* read of oldApp.CronStatus all succeeded
NilOldAppRead ==
    /\ Done
    /\ op.kind = "update"
    /\ op.oldApp = Nil
    /\ \A i \in 1..(Len(calls) - 1) : calls[i].res = "ok"

\* C13: a panic at any point of CreateApp, UpdateApp or DeleteApp after
\* BeginTx succeeded (a panicking collaborator, or UpdateApp reading the
\* CronStatus of a nil oldApp) rolls the transaction back exactly once, never
\* commits it, leaves the transactional stores as they were, and reaches the
\* caller as a panic; no call panics otherwise.
C13_FaultSafeRollback ==
    /\ (Done /\ Began /\ (Panicked \/ NilOldAppRead)) =>
          /\ CallsOf("Rollback") = {Len(calls)}
          /\ CallsOf("Commit") = {}
          /\ txState = "rolledback"
          /\ ret = MkRet("panic", Nil)
          /\ Stores = [apps |-> pre.apps, configs |-> pre.configs,
                       index |-> pre.index, nodeApps |-> pre.nodeApps]
    /\ (Done /\ Transactional /\ ret.status = "panic") =>
          (Began /\ (Panicked \/ NilOldAppRead))

C13_Witness ==
    /\ NilOldAppRead
    /\ Began
    /\ CallsOf("UpdateCron") # {}
    /\ crons # pre.crons
    /\ ret.status = "panic"
    /\ calls[Len(calls)].call = "Rollback"

\* C14: the reconciliation is idempotent. Invoked again with the same
\* surviving set and the same old application, after a first invocation that
\* deleted its candidates, it fails nothing (it reaches its end with no error
\* set and no panic, whatever the store answers to the delete of a name that
\* is gone) and leaves the Configuration store exactly as the first
\* invocation left it: the store it was given minus the candidates.
C14_CleanIdempotent ==
    (op.kind = "clean" /\ pc = "defer") =>
        /\ err = "nil"
        /\ ~fault
        /\ tx.configs = configs \ GcCandidates
        /\ {calls[i].arg : i \in CallsOf("ConfigDelete")} = GcCandidates
        /\ nOps > 1 => tx.configs = pre.configs

C14_Witness ==
    /\ op.kind = "clean"
    /\ pc = "defer"
    /\ nOps = 2
    /\ configs = {CfgFunctionA, CfgUser, CfgProgramB}
    /\ GcCandidates = {CfgProgramB}
    /\ pre.configs = {CfgFunctionA, CfgUser}
    /\ tx.configs = {CfgFunctionA, CfgUser}
    /\ \E i \in CallsOf("ConfigDelete") :
          calls[i].arg = CfgProgramB /\ calls[i].res = "err"

\* the removal of the old node entries was started in the current call
RemovalCalls == CallsOf("DeleteNodeAppVersion")

\* the current call is an UpdateApp whose a.app.Update returned no error
UpdatePersisted ==
    /\ Done
    /\ op.kind = "update"
    /\ \E i \in CallsOf("AppUpdate") : calls[i].res = "ok"

\* the selector in force for the old application: its Cron record's when it
\* waits, its own otherwise
OldEffectiveSelector ==
    IF op.oldApp.cronStatus = CronWait
    THEN pre.crons[op.input.name].selector
    ELSE op.oldApp.selector

\* C15 as stated: UpdateApp removes the old node entries iff the effective
\* selector differs between oldApp and the new application (for a waiting
\* application the selector of its Cron record, which for the new one is the
\* selector supplied).
C15_EffectiveSelectorRemoval ==
    (UpdatePersisted /\ (op.oldApp.cronStatus = CronWait =>
                            pre.crons[op.input.name] # Nil)) =>
        (RemovalCalls # {} <=> OldEffectiveSelector # op.input.selector)

\* C15 as the code has it: UpdateApp removes the old node entries iff the
\* Selector field of oldApp differs from the Selector field of the
\* application as persisted, which is empty when the new CronStatus is Wait
\* and the supplied selector otherwise; the removal is DeleteNodeAppVersion
\* on oldApp, then the refresh of the index to empty, both before the
\* recompute.
C15_FieldSelectorRemoval ==
    UpdatePersisted =>
        LET persisted == IF op.input.cronStatus = CronWait
                         THEN "" ELSE op.input.selector
        IN
        /\ RemovalCalls # {} <=> op.oldApp.selector # persisted
        /\ \A i \in RemovalCalls :
              /\ calls[i - 1].call = "AppUpdate"
              /\ \A j \in CallsOf("UpdateNodeAppVersion") : i + 1 < j
              /\ calls[i].res = "ok" =>
                    /\ calls[i + 1].call = "RefreshNodesIndexByApp"
                    /\ calls[i + 1].arg = op.oldApp.name
        /\ (Succeeded /\ RemovalCalls # {}) =>
              \A node \in NodesMatching(op.oldApp.selector)
                            \ NodesMatching(persisted) :
                  nodeApps[node][op.input.name] = 0

\* a Wait to Wait update that changes the Cron record's selector and removes
\* nothing
C15_Witness ==
    /\ Succeeded
    /\ op.kind = "update"
    /\ op.oldApp.cronStatus = CronWait
    /\ op.oldApp.selector = ""
    /\ op.input.cronStatus = CronWait
    /\ pre.crons[op.input.name].selector = "env=prod"
    /\ crons[op.input.name].selector = "env=staging"
    /\ RemovalCalls = {}
    /\ CallsOf("UpdateNodeAppVersion") # {}

\* the pair of statuses for which UpdateApp deletes the Cron record
WaitToNotSet ==
    /\ op.oldApp # Nil
    /\ op.oldApp.cronStatus = CronWait
    /\ op.input.cronStatus = CronNotSet

\* C16: UpdateApp issues a Cron delete only when oldApp has CronStatus Wait
\* and the new application NotSet; for every other pair (Wait to Wait, Wait
\* to Scheduled among them) it issues none, and when in addition the new
\* status is not Wait it issues no Cron call at all and the Cron store stays
\* as it was before the call, at every point of the call.
C16_CronDeleteFrame ==
    (op # Nil /\ op.kind = "update") =>
        /\ CallsOf("DeleteCron") # {} => WaitToNotSet
        /\ CallsOf("UpdateCron") # {} => op.input.cronStatus = CronWait
        /\ (~WaitToNotSet /\ op.input.cronStatus # CronWait) =>
              /\ crons = pre.crons
              /\ \A i \in DOMAIN calls :
                    calls[i].call \notin {"CreateCron", "UpdateCron", "DeleteCron"}

C16_Witness ==
    /\ Succeeded
    /\ op.kind = "update"
    /\ op.oldApp.cronStatus = CronWait
    /\ op.input.cronStatus = CronScheduled
    /\ pre.crons[op.input.name] = MkCron("env=prod", 1)
    /\ crons[op.input.name] = MkCron("env=prod", 1)
    /\ apps[op.input.name].cronStatus = CronScheduled

\* C17: every UpdateApp that returns nil recomputed the node index, whether
\* or not the selector changed: after a.app.Update and before Commit it called
\* UpdateNodeAppVersion once, for the application as persisted, and right
\* after it refreshed the index to the node set that call returned; once
\* committed, the index entry is that set and its nodes carry the persisted
\* version.
C17_AlwaysReindex ==
    (Done /\ op.kind = "update" /\ ret.status = "ok") =>
        /\ Cardinality(CallsOf("UpdateNodeAppVersion")) = 1
        /\ \E u \in CallsOf("AppUpdate") :
           \E v \in CallsOf("UpdateNodeAppVersion") :
           \E c \in CallsOf("Commit") :
              /\ u < v
              /\ v + 1 < c
              /\ calls[u].res = "ok"
              /\ calls[v].res = "ok"
              /\ calls[v].arg = ret.app.name
              /\ calls[v + 1] = Call("RefreshNodesIndexByApp", ret.app.name, "ok")
        /\ op.nodes = NodesMatching(ret.app.selector)
        /\ txState = "committed" =>
              /\ apps[ret.app.name] = ret.app
              /\ index[ret.app.name] = op.nodes
              /\ \A node \in op.nodes :
                    nodeApps[node][ret.app.name] = ret.app.version

\* an update that keeps the selector
C17_Witness ==
    /\ Succeeded
    /\ op.kind = "update"
    /\ op.oldApp.selector = "env=prod"
    /\ ret.app.selector = "env=prod"
    /\ CallsOf("DeleteNodeAppVersion") = {}
    /\ pre.index[ret.app.name] = {"N1", "N2"}
    /\ index[ret.app.name] = {"N1", "N2"}
    /\ pre.nodeApps["N1"][ret.app.name] # ret.app.version
    /\ nodeApps["N1"][ret.app.name] = ret.app.version

\* The documented order of the collaborator calls, written out per operation
\* as the place of each call in it. RefreshNodesIndexByApp is called from
\* two places and takes the place after the node call before it.
PlaceOf(c) ==
    CASE c = "BeginTx" -> 0
      [] c = "Upsert" -> 1
      [] c \in {"CreateCron", "UpdateCron"} -> 2
      [] c = "DeleteCron" -> 3
      [] c \in {"AppCreate", "AppUpdate", "AppDelete"} -> 4
      [] c = "DeleteNodeAppVersion" -> 5
      [] c = "UpdateNodeAppVersion" -> 7
      [] c = "ConfigDelete" -> 9
      [] c \in {"Commit", "Rollback"} -> 10

Place(i) ==
    IF calls[i].call = "RefreshNodesIndexByApp"
    THEN PlaceOf(calls[i - 1].call) + 1
    ELSE PlaceOf(calls[i].call)

\* the calls each operation may make at all
CallsAllowed(kind) ==
    {"BeginTx", "RefreshNodesIndexByApp", "Commit", "Rollback"} \cup
    CASE kind = "create" ->
            {"Upsert", "CreateCron", "AppCreate", "UpdateNodeAppVersion"}
      [] kind = "update" ->
            {"Upsert", "UpdateCron", "DeleteCron", "AppUpdate",
             "DeleteNodeAppVersion", "UpdateNodeAppVersion", "ConfigDelete"}
      [] kind = "delete" ->
            {"DeleteCron", "AppDelete", "DeleteNodeAppVersion", "ConfigDelete"}

\* the names of the calls made so far, in order
CallNames == [i \in DOMAIN calls |-> calls[i].call]

\* the calls of a CreateApp that returns nil, as documented
CreateSequence ==
    <<"BeginTx">> \o [i \in DOMAIN op.configs |-> "Upsert"]
        \o (IF op.input.cronStatus = CronWait THEN <<"CreateCron">> ELSE <<>>)
        \o <<"AppCreate", "UpdateNodeAppVersion", "RefreshNodesIndexByApp",
              "Commit">>

\* C18 as stated: once any collaborator call returned an error, the only
\* call that follows is the Rollback.
C18_NothingAfterAnyError ==
    Transactional =>
        \A i \in DOMAIN calls : \A j \in DOMAIN calls :
            (i < j /\ calls[i].res = "err") => calls[j].call = "Rollback"

\* C18 as the code has it: the calls of an operation are issued in the
\* documented order (a CreateApp that returns nil made exactly the
\* Configuration upserts in the order supplied, the Cron create when the
\* application waits, the Application create, the node version update, the
\* index refresh and the Commit), and once a call of that sequence returned
\* an error nothing follows it but the Rollback. The Configuration deletes of
\* the reconciliation are the exception: after an error of one of them the
\* remaining deletes and the Commit still follow.
C18_FailFast ==
    Transactional =>
        /\ \A i \in DOMAIN calls :
              /\ calls[i].call \in CallsAllowed(op.kind)
              /\ i < Len(calls) =>
                    \/ Place(i) < Place(i + 1)
                    \/ /\ Place(i) = Place(i + 1)
                       /\ calls[i].call \in {"Upsert", "ConfigDelete"}
                       /\ calls[i + 1].call = calls[i].call
              /\ (calls[i].res = "err" /\ calls[i].call = "BeginTx") =>
                    (Len(calls) = 1 /\ Done)
              /\ (calls[i].res = "err"
                    /\ calls[i].call \notin {"BeginTx", "ConfigDelete", "Commit"}) =>
                    /\ pc \in {"defer", "done"}
                    /\ i < Len(calls) =>
                          (calls[i + 1].call = "Rollback" /\ i + 1 = Len(calls))
        /\ \A i \in CallsOf("Upsert") : calls[i].arg = op.configs[i - 1]
        /\ (Done /\ op.kind = "create" /\ ret.status = "ok") =>
              CallNames = CreateSequence

C18_Witness ==
    /\ Done
    /\ op.kind = "create"
    /\ ret.status = "err"
    /\ \E i \in CallsOf("CreateCron") :
          /\ calls[i].res = "err"
          /\ calls[i - 1] = Call("Upsert", CfgProgramB, "ok")
          /\ calls[i + 1].call = "Rollback"
          /\ Len(calls) = i + 1
    /\ Snapshot = pre

\* C19: when BeginTx fails, CreateApp, UpdateApp and DeleteApp return that
\* error at once: BeginTx is the only call made (no Configuration, Cron,
\* Application, node or index call, no Commit and no Rollback), no
\* transaction exists, and every store is as it was.
C19_BeginTxFailure ==
    (Transactional /\ calls[1].res = "err") =>
        /\ Done
        /\ calls = <<Call("BeginTx", "", "err")>>
        /\ ret = MkRet("err", Nil)
        /\ txState = "none"
        /\ Snapshot = pre
        /\ dirty = {}

C19_Witness ==
    /\ Done
    /\ op.kind = "update"
    /\ op.input.cronStatus = CronWait
    /\ op.configs # <<>>
    /\ calls = <<Call("BeginTx", "", "err")>>
    /\ apps[op.input.name] # Nil
    /\ ret.status = "err"

\* both callers' calls have returned
BothDone == pc = "done" /\ other # Nil /\ other.pc = "done"

\* both calls returned nil with their transactions committed
BothSucceeded ==
    /\ BothDone
    /\ ret.status = "ok" /\ txState = "committed"
    /\ other.ret.status = "ok" /\ other.txState = "committed"

\* C20: two calls on the same application whose transactions the transaction
\* manager serializes (an UpdateApp racing a DeleteApp, or two UpdateApp, none
\* of them supplying CronStatus Scheduled) and that both succeed leave the
\* Cron invariant in force: a Cron record exists iff the application is
\* stored with CronStatus Wait, so none survives for a deleted application.
C20_RaceKeepsCronInvariant ==
    (BothSucceeded /\ op.input.cronStatus # CronScheduled
                   /\ other.op.input.cronStatus # CronScheduled) =>
        CronInv(apps, crons)

====
